---------------------------- MODULE Spec2Model ----------------------------
(***************************************************************************)
(* A model of good_git: the object codec (Object::from_bytes), the         *)
(* compressed object store (hash_object, Object::from_file/from_hash),     *)
(* revision resolution (Object::from_rev), reference resolution (find_ref) *)
(* and the history walk (log).                                             *)
(*                                                                         *)
(* Strings and byte buffers are sequences of byte tokens.  A printable     *)
(* ASCII byte is the one-character string of that byte; NUL, LF, CR are    *)
(* the control bytes 0x00, 0x0a, 0x0d; "xC3" "xA9" are the two bytes of    *)
(* the UTF-8 encoding of U+00E9, and "xFF" is a byte no UTF-8 text holds.  *)
(***************************************************************************)
EXTENDS Integers, Sequences, FiniteSets, TLC

VARIABLES
    objects,          \* .git/objects: shard directory name -> (file name -> file bytes)
    refs,             \* reference files under .git: path -> file content
    ret,              \* what the last completed operation returned
    call,             \* the last operation started, with its arguments
    stdout,           \* the lines written to the stdout handed to the operation
    next_object_rev,  \* log: the loop variable of lib.rs:95
    logPc,            \* log: "idle", "loop" (at the head of the while), "done"
    reference,        \* find_ref: the argument of the innermost call
    depth,            \* find_ref: number of stack frames of the recursion
    refPc,            \* find_ref: "idle", "run", "done", "overflow"
    visited,          \* history: the revisions log has iterated on, the arguments
                      \* of the calls of find_ref that have called find_ref
    prevCall,         \* history: the call before the last, with what it left
    threads           \* concurrent hash_object calls: where each is in its write

vars == <<objects, refs, ret, call, stdout, next_object_rev, logPc,
          reference, depth, refPc, visited, prevCall, threads>>

---------------------------------------------------------------------------
(* Bounds of the model, and the constants of the program.                  *)

\* Length of an identifier in hex characters (40 for SHA-1), scaled down.
HashLen == 7
\* Most objects the store holds.
MaxObjects == 3
\* Most reference files.
MaxRefs == 3
\* Concurrent calls of hash_object.
MaxWriters == 2

\* object.rs:228: a revision shorter than this is never looked up.
MinRevLen == 4
\* object.rs:229, object.rs:210, lib.rs:45: length of the shard directory name.
ShardLen == 2
\* object.rs:143: bytes of a raw digest in a tree entry.
RawHashLen == 20
\* lib.rs:112: precision of the revision column of a log line.
LogRevWidth == 6

---------------------------------------------------------------------------
(* Byte tokens and strings.                                                *)

NUL == "NUL"
LF == "LF"
CR == "CR"
SP == " "

Digits == <<"0", "1", "2", "3", "4", "5", "6", "7", "8", "9">>
HexDigits == <<"0", "1", "2", "3", "4", "5", "6", "7", "8", "9",
               "a", "b", "c", "d", "e", "f">>

\* Every byte token of the model with the two hex digits of its value.
ByteTable ==
    << <<NUL, "0", "0">>, <<"x01", "0", "1">>, <<LF, "0", "a">>, <<CR, "0", "d">>,
       <<SP, "2", "0">>, <<"+", "2", "b">>, <<"/", "2", "f">>, <<":", "3", "a">>,
       <<"0", "3", "0">>, <<"1", "3", "1">>, <<"2", "3", "2">>, <<"3", "3", "3">>,
       <<"4", "3", "4">>, <<"5", "3", "5">>, <<"6", "3", "6">>, <<"7", "3", "7">>,
       <<"8", "3", "8">>, <<"9", "3", "9">>, <<"A", "4", "1">>, <<"B", "4", "2">>,
       <<"a", "6", "1">>, <<"b", "6", "2">>, <<"c", "6", "3">>, <<"d", "6", "4">>,
       <<"e", "6", "5">>, <<"f", "6", "6">>, <<"g", "6", "7">>, <<"h", "6", "8">>,
       <<"i", "6", "9">>, <<"k", "6", "b">>, <<"l", "6", "c">>, <<"m", "6", "d">>,
       <<"n", "6", "e">>, <<"o", "6", "f">>, <<"p", "7", "0">>, <<"r", "7", "2">>,
       <<"s", "7", "3">>, <<"t", "7", "4">>, <<"u", "7", "5">>, <<"x", "7", "8">>,
       <<"-", "2", "d">>, <<"\"", "2", "2">>, <<"D", "4", "4">>, <<"E", "4", "5">>,
       <<"H", "4", "8">>, <<"\\", "5", "c">>,
       <<"xA9", "a", "9">>, <<"xC3", "c", "3">>, <<"xFF", "f", "f">> >>

Bytes == {ByteTable[i][1] : i \in 1..Len(ByteTable)}
HexValue(h) == (CHOOSE i \in 1..16 : HexDigits[i] = h) - 1
\* The two hex digits, and the value, of each byte.
ByteHex == [b \in Bytes |->
              LET row == ByteTable[CHOOSE i \in 1..Len(ByteTable) : ByteTable[i][1] = b]
              IN  <<row[2], row[3]>>]
ByteValues == [b \in Bytes |-> 16 * HexValue(ByteHex[b][1]) + HexValue(ByteHex[b][2])]
ByteValue(b) == ByteValues[b]

Min(a, b) == IF a < b THEN a ELSE b

Take(s, n) == SubSeq(s, 1, Min(n, Len(s)))
Drop(s, n) == SubSeq(s, Min(n, Len(s)) + 1, Len(s))

\* str::starts_with / slice::starts_with
starts_with(s, p) == Len(p) <= Len(s) /\ SubSeq(s, 1, Len(p)) = p

\* Iterator::position: the 0-based index of the first b in s, or -1 (None).
position(s, b) ==
    LET at == {i \in 1..Len(s) : s[i] = b}
    IN  IF at = {} THEN -1 ELSE (CHOOSE i \in at : \A j \in at : i <= j) - 1

RECURSIVE Concat(_)
Concat(ss) == IF ss = <<>> THEN <<>> ELSE Head(ss) \o Concat(Tail(ss))

\* Result values.
Ok(v) == [kind |-> "ok", val |-> v]
Err(m) == [kind |-> "err", msg |-> m]
Panic(m) == [kind |-> "panic", msg |-> m]
None == [kind |-> "none"]
NoCall == [op |-> "none"]

IsContinuation(b) == b = "xA9"
IsLead(b) == b = "xC3"

\* std::str::from_utf8: is the buffer UTF-8 text?  Every lead byte is followed
\* by its continuation byte, every continuation byte follows its lead byte.
valid_utf8(s) ==
    \A i \in 1..Len(s) :
        /\ s[i] # "xFF"
        /\ IsLead(s[i]) => (i < Len(s) /\ IsContinuation(s[i + 1]))
        /\ IsContinuation(s[i]) => (i > 1 /\ IsLead(s[i - 1]))

\* str::is_char_boundary, index counted in bytes from 0.
is_char_boundary(s, i) ==
    \/ i = 0
    \/ i = Len(s)
    \/ i < Len(s) /\ ~IsContinuation(s[i + 1])

\* The first n characters (not bytes) of a string: the precision of "{:.n}".
RECURSIVE truncate_chars(_, _)
truncate_chars(s, n) ==
    IF n = 0 \/ s = <<>> THEN <<>>
    ELSE IF IsLead(s[1]) THEN Take(s, 2) \o truncate_chars(Drop(s, 2), n - 1)
    ELSE <<s[1]>> \o truncate_chars(Tail(s), n - 1)

\* str::trim_end: trailing white space removed.
IsWhitespace(b) == b \in {SP, LF, CR}
RECURSIVE trim_end(_)
trim_end(s) ==
    IF s # <<>> /\ IsWhitespace(s[Len(s)]) THEN trim_end(SubSeq(s, 1, Len(s) - 1))
    ELSE s

\* str::trim_start_matches: every repetition of the prefix p removed.
RECURSIVE trim_start_matches(_, _)
trim_start_matches(s, p) ==
    IF p # <<>> /\ starts_with(s, p) THEN trim_start_matches(Drop(s, Len(p)), p)
    ELSE s

\* usize::to_string
RECURSIVE to_string(_)
to_string(n) ==
    IF n < 10 THEN <<Digits[n + 1]>>
    ELSE to_string(n \div 10) \o <<Digits[(n % 10) + 1]>>

IsDigit(b) == \E i \in 1..10 : Digits[i] = b
DigitValue(b) == (CHOOSE i \in 1..10 : Digits[i] = b) - 1

RECURSIVE DecimalValue(_)
DecimalValue(s) ==
    IF s = <<>> THEN 0
    ELSE 10 * DecimalValue(SubSeq(s, 1, Len(s) - 1)) + DigitValue(s[Len(s)])

\* str::parse::<usize>: digits, after an optional "+".
parse_usize(s) ==
    LET d == IF s # <<>> /\ s[1] = "+" THEN Tail(s) ELSE s
    IN  IF d # <<>> /\ \A i \in 1..Len(d) : IsDigit(d[i])
        THEN Ok(DecimalValue(d))
        ELSE Err("ParseIntError")

\* str::lines: split at LF, a CR right before the LF dropped with it; the text
\* after the last LF is a line unless it is empty.
RECURSIVE lines(_)
lines(s) ==
    IF s = <<>> THEN <<>>
    ELSE LET p == position(s, LF)
         IN  IF p = -1 THEN <<s>>
             ELSE LET l == Take(s, p)
                      line == IF l # <<>> /\ l[Len(l)] = CR
                              THEN SubSeq(l, 1, Len(l) - 1) ELSE l
                  IN  <<line>> \o lines(Drop(s, p + 1))

\* [&str]::join
RECURSIVE join(_, _)
join(ls, sep) ==
    IF ls = <<>> THEN <<>>
    ELSE IF Len(ls) = 1 THEN ls[1]
    ELSE ls[1] \o sep \o join(Tail(ls), sep)

\* str::split_once(' ')
split_once(s, b) ==
    LET p == position(s, b)
    IN  IF p = -1 THEN None ELSE Ok(<<Take(s, p), Drop(s, p + 1)>>)

---------------------------------------------------------------------------
(* object.rs: the object codec.                                            *)

\* hex::encode
RECURSIVE hex_encode(_)
hex_encode(s) ==
    IF s = <<>> THEN <<>>
    ELSE ByteHex[s[1]] \o hex_encode(Tail(s))

\* Mode::mode_str, by variant.
ModeStrings ==
    [NormalFile |-> <<"1", "0", "0", "6", "4", "4">>,
     Executable |-> <<"1", "0", "0", "7", "5", "5">>,
     SymbolicLink |-> <<"1", "2", "0", "0", "0", "0">>,
     Tree |-> <<"4", "0", "0", "0", "0">>,
     Submodule |-> <<"1", "6", "0", "0", "0", "0">>]

mode_str(mode) == ModeStrings[mode]

from_mode_str(mode) ==
    IF \E m \in DOMAIN ModeStrings : ModeStrings[m] = mode
    THEN Ok(CHOOSE m \in DOMAIN ModeStrings : ModeStrings[m] = mode)
    ELSE Err("Unknown mode")

B_blob == <<"b", "l", "o", "b">>
B_tree == <<"t", "r", "e", "e">>
B_commit == <<"c", "o", "m", "m", "i", "t">>
B_parent == <<"p", "a", "r", "e", "n", "t">>
B_author == <<"a", "u", "t", "h", "o", "r">>
B_committer == <<"c", "o", "m", "m", "i", "t", "t", "e", "r">>
B_encoding == <<"e", "n", "c", "o", "d", "i", "n", "g">>

Blob(content) == [type |-> "blob", content |-> content]
Tree(files) == [type |-> "tree", files |-> files]
File(mode, name, hash) == [mode |-> mode, name |-> name, hash |-> hash]
\* Commit::default()
DefaultCommit ==
    [type |-> "commit", tree |-> <<>>, parent |-> <<>>, author |-> <<>>,
     committer |-> <<>>, encoding |-> <<>>, message |-> <<>>]

\* Object::parse_header: Ok(<<type, size, index of the NUL>>).
parse_header(s) ==
    LET space_index == position(s, SP)
        null_index == position(s, NUL)
    IN  IF space_index = -1 THEN Err("Incorrect header format")
        ELSE IF null_index = -1 THEN Err("Incorrect header format")
        ELSE IF ~valid_utf8(Take(s, space_index)) THEN Err("Utf8Error")
        ELSE IF space_index + 1 > null_index
             THEN Panic("slice index starts after it ends")
        ELSE LET size == SubSeq(s, space_index + 2, null_index)
             IN  IF ~valid_utf8(size) THEN Err("Utf8Error")
                 ELSE IF parse_usize(size).kind = "err" THEN parse_usize(size)
                 ELSE Ok(<<Take(s, space_index), parse_usize(size).val, null_index>>)

\* BufRead::read_until on a slice: the bytes up to and including the first
\* delimiter, or all of them when there is none.
read_until(content, delim) ==
    LET p == position(content, delim)
    IN  IF p = -1 THEN Len(content) ELSE p + 1

\* The loop of object.rs:129-154 over the entries of a tree.
RECURSIVE parse_tree(_, _)
parse_tree(content, files) ==
    IF content = <<>> THEN Ok(Tree(files))
    ELSE
    LET mode_size == read_until(content, SP)
        mode_bytes == SubSeq(content, 1, mode_size - 1)
        after_mode == Drop(content, mode_size)
        name_size == read_until(after_mode, NUL)
        name == SubSeq(after_mode, 1, name_size - 1)
        after_name == Drop(after_mode, name_size)
    IN  IF ~valid_utf8(mode_bytes) THEN Err("Utf8Error")
        ELSE IF from_mode_str(mode_bytes).kind = "err" THEN Err("Failed to parse mode")
        ELSE IF name_size = 0 THEN Panic("attempt to subtract with overflow")
        ELSE IF ~valid_utf8(name) THEN Err("Utf8Error")
        ELSE IF Len(after_name) < RawHashLen THEN Err("Failed to read hash")
        ELSE parse_tree(Drop(after_name, RawHashLen),
                        Append(files, File(from_mode_str(mode_bytes).val, name,
                                           hex_encode(Take(after_name, RawHashLen)))))

\* The loop of object.rs:169-191 over the lines of a commit.
RECURSIVE parse_commit(_, _)
parse_commit(ls, commit) ==
    IF ls = <<>> THEN Ok(commit)
    ELSE IF ls[1] = <<>> THEN Ok([commit EXCEPT !.message = join(Tail(ls), <<LF>>)])
    ELSE LET kv == split_once(ls[1], SP)
         IN  IF kv.kind = "none" THEN Err("Invalid line")
             ELSE LET key == kv.val[1]
                      value == kv.val[2]
                  IN  parse_commit(Tail(ls),
                        IF key = B_tree THEN [commit EXCEPT !.tree = value]
                        ELSE IF key = B_parent THEN [commit EXCEPT !.parent = value]
                        ELSE IF key = B_author THEN [commit EXCEPT !.author = value]
                        ELSE IF key = B_committer THEN [commit EXCEPT !.committer = value]
                        ELSE IF key = B_encoding THEN [commit EXCEPT !.encoding = value]
                        ELSE commit)

\* Object::from_bytes
from_bytes(s) ==
    LET header == parse_header(s)
    IN  IF header.kind # "ok" THEN header
        ELSE
        LET object_type == header.val[1]
            object_size == header.val[2]
            header_end == header.val[3]
            content == Drop(s, header_end + 1)
        IN  IF Len(content) # object_size THEN Err("Incorrect header length")
            ELSE IF object_type = B_blob THEN Ok(Blob(content))
            ELSE IF object_type = B_tree THEN parse_tree(content, <<>>)
            ELSE IF object_type = B_commit
                 THEN IF ~valid_utf8(content) THEN Err("Utf8Error")
                      ELSE parse_commit(lines(content), DefaultCommit)
            ELSE Err("Unknown object type")

\* object::hash: SHA-1 as a fixed digest of HashLen hex digits, each digit a
\* different weighted sum of the bytes and the length.
RECURSIVE WeightedSum(_, _, _)
WeightedSum(s, i, k) ==
    IF i > Len(s) THEN 0
    ELSE ((i + k) * ByteValue(s[i]) + WeightedSum(s, i + 1, k)) % 16

hash(s) == [k \in 1..HashLen |-> HexDigits[((WeightedSum(s, 1, k) + k * (Len(s) + 1)) % 16) + 1]]

\* The canonical encoding of a blob: lib.rs:49-52, object.rs:19-22.
blob_bytes(content) == B_blob \o <<SP>> \o to_string(Len(content)) \o <<NUL>> \o content

\* Blob::hash
Blob_hash(content) == hash(blob_bytes(content))

\* flate2 ZlibEncoder at the default level: a header byte, the deflated
\* payload, the end-of-block symbol of the deflate stream (which is no byte
\* value) and a checksum of the payload (here of its length and last byte).
Checksum(s) ==
    HexDigits[((Len(s) + (IF s = <<>> THEN 0 ELSE ByteValue(s[Len(s)]))) % 16) + 1]
EOB == "EOB"
zlib_encode(s) == <<"x">> \o s \o <<EOB, Checksum(s)>>

\* flate2 read::ZlibDecoder::read_to_end.  A wrong header or checksum is a
\* corrupt stream.  Input that ends before the stream does is no error: the
\* decoder returns what it has inflated so far and then 0 bytes (zio::read
\* returns Ok(read) on Status::BufError at the end of the input).
zlib_decode(data) ==
    IF data = <<>> THEN Ok(<<>>)
    ELSE IF data[1] # "x" THEN Err("corrupt deflate stream")
    ELSE LET end == position(data, EOB)
         IN  IF end = -1 THEN Ok(Drop(data, 1))
             ELSE IF Len(data) = end + 1 THEN Ok(SubSeq(data, 2, end))
             ELSE IF data[end + 2] = Checksum(SubSeq(data, 2, end)) THEN Ok(SubSeq(data, 2, end))
             ELSE Err("corrupt deflate stream")

---------------------------------------------------------------------------
(* The object store and revision resolution.                               *)

\* Path::exists of .git/objects/<dir>
path_exists(objs, dir) == dir \in DOMAIN objs

\* fs::read_dir of .git/objects/<dir>: the file names, in any order.
read_dir(objs, dir) ==
    IF path_exists(objs, dir)
    THEN LET names == DOMAIN objs[dir]
             n == Cardinality(names)
         IN  {f \in [1..n -> names] : \A i, j \in 1..n : f[i] = f[j] => i = j}
    ELSE {<<>>}

\* fs::create_dir_all(dir) then fs::write(dir/file, data)
fs_write(objs, dir, file, data) ==
    LET old == IF dir \in DOMAIN objs THEN objs[dir] ELSE <<>>
        new == [f \in DOMAIN old \cup {file} |-> IF f = file THEN data ELSE old[f]]
    IN  [d \in DOMAIN objs \cup {dir} |-> IF d = dir THEN new ELSE objs[d]]

\* Object::from_file of .git/objects/<dir>/<file>
from_file(objs, dir, file) ==
    IF ~(dir \in DOMAIN objs /\ file \in DOMAIN objs[dir])
    THEN Err("Could not read from file")
    ELSE LET s == zlib_decode(objs[dir][file])
         IN  IF s.kind # "ok" THEN s ELSE from_bytes(s.val)

\* Object::from_hash
from_hash(objs, h) ==
    IF Len(h) < ShardLen \/ ~is_char_boundary(h, ShardLen) THEN Err("Invalid hash")
    ELSE from_file(objs, Take(h, ShardLen), Drop(h, ShardLen))

\* collect_candidates with the file name compared for equality.
RECURSIVE collect_exact(_, _, _)
collect_exact(listing, short_hash, long_hash) ==
    IF listing = <<>> THEN <<>>
    ELSE (IF Head(listing) = long_hash
          THEN <<short_hash \o Head(listing)>> ELSE <<>>)
         \o collect_exact(Tail(listing), short_hash, long_hash)

\* collect_candidates that stops at the first match.
RECURSIVE collect_first(_, _, _)
collect_first(listing, short_hash, long_hash) ==
    IF listing = <<>> THEN <<>>
    ELSE IF starts_with(Head(listing), long_hash) THEN <<short_hash \o Head(listing)>>
    ELSE collect_first(Tail(listing), short_hash, long_hash)

\* The candidates of object.rs:225-244, listing being the order in which
\* read_dir returns the shard directory.
RECURSIVE collect_candidates(_, _, _)
collect_candidates(listing, short_hash, long_hash) ==
    IF listing = <<>> THEN <<>>
    ELSE (IF starts_with(Head(listing), long_hash)
          THEN <<short_hash \o Head(listing)>> ELSE <<>>)
         \o collect_candidates(Tail(listing), short_hash, long_hash)

\* Object::from_rev
from_rev(objs, rev, listing) ==
    IF Len(rev) >= MinRevLen /\ ~is_char_boundary(rev, ShardLen)
    THEN Panic("byte index is not a char boundary")
    ELSE
    LET short_hash == Take(rev, ShardLen)
        long_hash == Drop(rev, ShardLen)
        candidates == IF Len(rev) >= MinRevLen /\ path_exists(objs, short_hash)
                      THEN collect_candidates(listing, short_hash, long_hash)
                      ELSE <<>>
    IN  IF Len(candidates) = 1 THEN from_hash(objs, candidates[1])
        ELSE IF Len(candidates) = 0 THEN Err("Object not found")
        ELSE [kind |-> "err", msg |-> "Ambiguous reference", candidates |-> candidates]

\* The orders read_dir can return for the directory from_rev(rev) lists.
Listings(objs, rev) == read_dir(objs, Take(rev, ShardLen))

\* tests/git_test.rs write_compressed_object
write_compressed_object(objs, h, object_content) ==
    fs_write(objs, Take(h, ShardLen), Drop(h, ShardLen), zlib_encode(object_content))

\* tests/git_test.rs create_blob
create_blob(objs, h, content) ==
    write_compressed_object(objs, h, B_blob \o <<SP>> \o to_string(Len(content)) \o <<NUL>> \o content)

\* tests/git_test.rs create_commit: the bytes it compresses.
commit_bytes(commit) ==
    LET content == B_tree \o <<SP>> \o commit.tree \o <<LF>>
                   \o B_encoding \o <<SP>> \o commit.encoding \o <<LF>>
                   \o B_committer \o <<SP>> \o commit.committer \o <<LF>>
                   \o B_author \o <<SP>> \o commit.author \o <<LF>>
                   \o B_parent \o <<SP>> \o commit.parent \o <<LF>>
                   \o <<LF>> \o commit.message
    IN  B_commit \o <<SP>> \o to_string(Len(content)) \o <<NUL>> \o content

\* tests/git_test.rs create_commit
create_commit(objs, h, commit) ==
    write_compressed_object(objs, h, commit_bytes(commit))

\* hex::decode: the byte of each pair of hex digits.
RECURSIVE hex_decode(_)
hex_decode(h) ==
    IF Len(h) < 2 THEN <<>>
    ELSE <<ByteTable[CHOOSE i \in 1..Len(ByteTable) :
                        ByteTable[i][2] = h[1] /\ ByteTable[i][3] = h[2]][1]>>
         \o hex_decode(Drop(h, 2))

\* tests/git_test.rs create_tree
RECURSIVE tree_content(_)
tree_content(files) ==
    IF files = <<>> THEN <<>>
    ELSE files[1].mode \o <<SP>> \o files[1].name \o <<NUL>> \o hex_decode(files[1].hash)
         \o tree_content(Tail(files))

\* tests/git_test.rs create_tree: the bytes it compresses.
tree_bytes(files) ==
    B_tree \o <<SP>> \o to_string(Len(tree_content(files))) \o <<NUL>> \o tree_content(files)

create_tree(objs, h, files) ==
    write_compressed_object(objs, h, tree_bytes(files))

\* The identifiers under which some object is stored.
StoredIds(objs) == UNION {{d \o f : f \in DOMAIN objs[d]} : d \in DOMAIN objs}

---------------------------------------------------------------------------
(* The inputs of the model.                                                *)

\* An identifier that starts with p, padded to HashLen hex digits.
Pad(p) == p \o [i \in 1..(HashLen - Len(p)) |-> "0"]

\* Identifiers the test helpers store objects under: two that share their
\* first four digits, one more in the same shard, one in another shard.
IdSeq ==
    <<Pad(<<"a", "a", "a", "a", "1">>), Pad(<<"a", "a", "a", "a", "2">>),
      Pad(<<"a", "a", "b">>), Pad(<<"b", "c">>)>>

IdPool == {IdSeq[i] : i \in 1..Len(IdSeq)}

Prefixes(s) == {Take(s, n) : n \in 0..Len(s)}

\* Revision strings handed to from_rev, cat_file and log.
RevPool ==
    UNION {Prefixes(h) : h \in IdPool}
    \cup {h \o <<"0">> : h \in IdPool}
    \cup {<<"h", "e", "l", "l", "o">>,
          <<"a", "xC3", "xA9">>, <<"a", "xC3", "xA9", "b">>,
          <<"a", "a", "xC3", "xA9">>, <<"xC3", "xA9", "xC3", "xA9">>}

\* Blob payloads.
Contents == {<<"a">>, <<"a", SP, NUL>>}

\* Parent fields of the commits the test helpers store.
ParentPool == {<<>>, <<"a", "a", "a", "a">>, Pad(<<"a", "a", "b">>), Pad(<<"b", "c">>)}

TestCommit(parent) ==
    [tree |-> Pad(<<"9", "9">>), parent |-> parent, author |-> <<"B">>,
     committer |-> <<"A">>, encoding |-> <<>>, message |-> <<"m">>]

TestTree ==
    <<[mode |-> ModeStrings.NormalFile, name |-> <<"a">>,
       hash |-> [i \in 1..(2 * RawHashLen) |-> IF i % 2 = 1 THEN "0" ELSE "1"]]>>

\* A stream the codec rejects: object.rs test_object_from_bytes_incorrect_header_size.
BadObject == B_blob \o <<SP, "0", NUL, "h", "i">>

---------------------------------------------------------------------------
(* The state after init_repo, and the operations.                          *)

B_HEAD == <<"H", "E", "A", "D">>
B_ref == <<"r", "e", "f", ":", SP>>
B_refs_heads == <<"r", "e", "f", "s", "/", "h", "e", "a", "d", "s", "/">>

\* The concurrent callers of hash_object, and one that has not been started.
Writers == 1..MaxWriters
IdleThread == [pc |-> "idle", content |-> <<>>, pos |-> 0]

\* lib.rs init_repo(repo, "main") on an empty directory.
Init ==
    /\ objects = <<>>
    /\ refs = [p \in {B_HEAD} |-> B_ref \o B_refs_heads \o <<"m">>]
    /\ ret = None
    /\ call = NoCall
    /\ stdout = <<>>
    /\ next_object_rev = None
    /\ logPc = "idle"
    /\ reference = <<>>
    /\ depth = 0
    /\ refPc = "idle"
    /\ visited = {}
    /\ prevCall = None
    /\ threads = [w \in Writers |-> IdleThread]

\* No operation is running, and no concurrent writer has been started.
Idle ==
    /\ logPc # "loop"
    /\ refPc # "run"
    /\ \A w \in Writers : threads[w].pc = "idle"

\* The helpers are called in the order of IdSeq, once per identifier: the
\* store they leave does not depend on the order of the calls, and a second
\* write of an identifier replaces the first.
Room(h) ==
    /\ Cardinality(StoredIds(objects)) < MaxObjects
    /\ \A i, j \in 1..Len(IdSeq) : (IdSeq[i] \in StoredIds(objects) /\ IdSeq[j] = h) => i < j

\* The test fixture is built before the operation under test is called.
Fixture == Idle /\ call = NoCall

\* A test helper has stored an object.
Stored(objs) ==
    /\ objects' = objs
    /\ UNCHANGED <<refs, ret, call, stdout, next_object_rev, logPc,
                   reference, depth, refPc, visited, prevCall, threads>>

CreateBlob ==
    /\ Fixture
    /\ \E h \in IdPool, content \in Contents :
        Room(h) /\ Stored(create_blob(objects, h, content))

CreateTree ==
    /\ Fixture
    /\ \E h \in IdPool : Room(h) /\ Stored(create_tree(objects, h, TestTree))

CreateCommit ==
    /\ Fixture
    /\ \E h \in IdPool, parent \in ParentPool :
        Room(h) /\ Stored(create_commit(objects, h, TestCommit(parent)))

WriteCompressedObject ==
    /\ Fixture
    /\ \E h \in IdPool : Room(h) /\ Stored(write_compressed_object(objects, h, BadObject))

\* Object::from_rev(repo, rev)
FromRev ==
    /\ Fixture
    /\ \E rev \in RevPool : \E listing \in Listings(objects, rev) :
        /\ call' = [op |-> "from_rev", rev |-> rev]
        /\ ret' = from_rev(objects, rev, listing)
    /\ UNCHANGED <<objects, refs, stdout, next_object_rev, logPc,
                   reference, depth, refPc, visited, prevCall, threads>>

NextRev == CreateBlob \/ WriteCompressedObject \/ FromRev

SpecRev == Init /\ [][NextRev]_vars

\* The stored identifiers that start with rev.
Matching(objs, rev) == {h \in StoredIds(objs) : starts_with(h, rev)}

\* The object stored under exactly the identifier h.
StoredObject(objs, h) == from_file(objs, Take(h, ShardLen), Drop(h, ShardLen))

Range(s) == {s[i] : i \in 1..Len(s)}

\* Number of characters of a string.
RECURSIVE char_count(_)
char_count(s) ==
    IF s = <<>> THEN 0
    ELSE IF IsLead(s[1]) THEN 1 + char_count(Drop(s, 2))
    ELSE 1 + char_count(Tail(s))

\* C1: a prefix of at least 4 characters that only one stored identifier H
\* starts with resolves to what the full identifier H resolves to, the object
\* stored under exactly H.
C1_UniquePrefixResolvesLikeFull ==
    call.op = "from_rev" =>
        \A h \in StoredIds(objects) :
            (Len(call.rev) >= MinRevLen /\ Matching(objects, call.rev) = {h}) =>
                /\ ret = StoredObject(objects, h)
                /\ \A listing \in Listings(objects, h) : ret = from_rev(objects, h, listing)

C1_Witness ==
    /\ call.op = "from_rev"
    /\ Len(call.rev) >= MinRevLen /\ Len(call.rev) < HashLen
    /\ Cardinality(Matching(objects, call.rev)) = 1
    /\ Cardinality(Matching(objects, Take(call.rev, ShardLen))) >= 2
    /\ ret.kind = "ok"

\* C2: a revision of at least 4 characters that two or more stored
\* identifiers start with fails with "Ambiguous reference", and the error
\* lists exactly the stored identifiers that start with the revision.
C2_AmbiguousListsAllCandidates ==
    (call.op = "from_rev" /\ Len(call.rev) >= MinRevLen
     /\ Cardinality(Matching(objects, call.rev)) >= 2) =>
        /\ ret.kind = "err" /\ ret.msg = "Ambiguous reference"
        /\ Range(ret.candidates) = Matching(objects, call.rev)
        /\ Len(ret.candidates) = Cardinality(Matching(objects, call.rev))

C2_Witness ==
    /\ call.op = "from_rev" /\ Len(call.rev) >= MinRevLen
    /\ Cardinality(Matching(objects, call.rev)) >= 2
    /\ Cardinality(StoredIds(objects) \ Matching(objects, call.rev)) >= 1
    /\ ret.kind = "err"

\* C3: from_rev fails with "Object not found" when no stored identifier starts
\* with the revision, and for every revision shorter than 4 characters.
C3_NotFound ==
    (call.op = "from_rev"
     /\ (char_count(call.rev) < MinRevLen \/ Matching(objects, call.rev) = {})) =>
        ret = Err("Object not found")

---------------------------------------------------------------------------
(* lib.rs log: the history walk.                                           *)

B_sep == <<SP, "-", SP>>

\* str::lines().next().unwrap_or("")
first_line(message) == IF lines(message) = <<>> THEN <<>> ELSE lines(message)[1]

\* lib.rs:108-112: the text of one record, without the line feed.
log_line(this_rev, commit) ==
    truncate_chars(this_rev, LogRevWidth) \o B_sep \o first_line(commit.message)
    \o B_sep \o <<"\"">> \o commit.committer \o <<"\"">>

\* The model keeps the first StdoutKept lines of stdout.  A walk over distinct
\* stored objects writes at most MaxObjects lines.
StdoutKept == MaxObjects + 1

writeln(out, line) == IF Len(out) < StdoutKept THEN Append(out, line) ELSE out

\* log_iteration with the parent read from the tree field.
log_iteration_tree(objs, this_rev, listing, out) ==
    LET current_object == from_rev(objs, this_rev, listing)
    IN  IF current_object.kind # "ok"
        THEN [pc |-> "done", ret |-> current_object, next |-> Ok(this_rev), stdout |-> out]
        ELSE IF current_object.val.type \in {"blob", "tree"}
        THEN [pc |-> "done", ret |-> Ok(<<>>), next |-> Ok(this_rev), stdout |-> out]
        ELSE LET commit == current_object.val
                 written == writeln(out, log_line(this_rev, commit))
             IN  IF commit.parent = <<>>
                 THEN [pc |-> "done", ret |-> Ok(<<>>), next |-> Ok(this_rev),
                       stdout |-> written]
                 ELSE [pc |-> "loop", ret |-> None, next |-> Ok(commit.tree),
                       stdout |-> written]

\* log_iteration that reports a revision that is no commit as an error.
log_iteration_strict(objs, this_rev, listing, out) ==
    LET current_object == from_rev(objs, this_rev, listing)
    IN  IF current_object.kind # "ok"
        THEN [pc |-> "done", ret |-> current_object, next |-> Ok(this_rev), stdout |-> out]
        ELSE IF current_object.val.type \in {"blob", "tree"}
        THEN [pc |-> "done", ret |-> Err("Not a commit"), next |-> Ok(this_rev),
              stdout |-> out]
        ELSE LET commit == current_object.val
                 written == writeln(out, log_line(this_rev, commit))
             IN  IF commit.parent = <<>>
                 THEN [pc |-> "done", ret |-> Ok(<<>>), next |-> Ok(this_rev),
                       stdout |-> written]
                 ELSE [pc |-> "loop", ret |-> None, next |-> Ok(commit.parent),
                       stdout |-> written]

\* One iteration of the loop of lib.rs:97-120 on this_rev: where the loop goes,
\* what log returns if it returns, next_object_rev and stdout after it.
log_iteration(objs, this_rev, listing, out) ==
    LET current_object == from_rev(objs, this_rev, listing)
    IN  IF current_object.kind # "ok"
        THEN [pc |-> "done", ret |-> current_object, next |-> Ok(this_rev), stdout |-> out]
        ELSE IF current_object.val.type \in {"blob", "tree"}
        THEN [pc |-> "done", ret |-> Ok(<<>>), next |-> Ok(this_rev), stdout |-> out]
        ELSE LET commit == current_object.val
                 written == writeln(out, log_line(this_rev, commit))
             IN  IF commit.parent = <<>>
                 THEN [pc |-> "done", ret |-> Ok(<<>>), next |-> Ok(this_rev),
                       stdout |-> written]
                 ELSE [pc |-> "loop", ret |-> None, next |-> Ok(commit.parent),
                       stdout |-> written]

\* Revisions log is started at.
LogRevPool == IdPool \cup {<<"a", "a", "a", "a">>, <<"a", "a", "b", "0">>}

\* log(repo, object_rev, stdout): lib.rs:95.
LogStart ==
    /\ Fixture
    /\ \E object_rev \in LogRevPool :
        /\ call' = [op |-> "log", rev |-> object_rev]
        /\ next_object_rev' = Ok(object_rev)
    /\ logPc' = "loop"
    /\ visited' = {}
    /\ UNCHANGED <<objects, refs, ret, stdout, reference, depth, refPc, prevCall, threads>>

\* One iteration of the while loop.
LogIter ==
    /\ logPc = "loop"
    /\ \E listing \in Listings(objects, next_object_rev.val) :
        LET it == log_iteration(objects, next_object_rev.val, listing, stdout)
        IN  /\ logPc' = it.pc
            /\ ret' = it.ret
            /\ next_object_rev' = it.next
            /\ stdout' = it.stdout
    /\ visited' = visited \cup {next_object_rev.val}
    /\ UNCHANGED <<objects, refs, call, reference, depth, refPc, prevCall, threads>>

NextLog == CreateBlob \/ CreateTree \/ CreateCommit \/ LogStart \/ LogIter

SpecLog == Init /\ [][NextLog]_vars

\* The commit stored under the identifier h, or something else.
IsStoredCommit(objs, h) ==
    /\ h \in StoredIds(objs)
    /\ StoredObject(objs, h).kind = "ok"
    /\ StoredObject(objs, h).val.type = "commit"

\* The identifiers of the chain of commits that starts at h, each the parent
\* field of the one before, when it ends at a commit with an empty parent
\* within n commits.
RECURSIVE chain(_, _, _)
chain(objs, h, n) ==
    IF n = 0 \/ ~IsStoredCommit(objs, h) THEN [ok |-> FALSE, ids |-> <<>>]
    ELSE IF StoredObject(objs, h).val.parent = <<>> THEN [ok |-> TRUE, ids |-> <<h>>]
    ELSE LET rest == chain(objs, StoredObject(objs, h).val.parent, n - 1)
         IN  [ok |-> rest.ok, ids |-> <<h>> \o rest.ids]

\* C4: log started at the head of a stored chain of commits that ends at a
\* root commit returns success having written one record per commit of the
\* chain, in the order of the chain.
C4_LogWalksChainInOrder ==
    (call.op = "log" /\ logPc = "done" /\ chain(objects, call.rev, MaxObjects).ok) =>
        LET ids == chain(objects, call.rev, MaxObjects).ids
        IN  /\ ret = Ok(<<>>)
            /\ stdout = [i \in 1..Len(ids) |-> log_line(ids[i], StoredObject(objects, ids[i]).val)]

C4_Witness ==
    /\ call.op = "log" /\ logPc = "done"
    /\ chain(objects, call.rev, MaxObjects).ok
    /\ Len(chain(objects, call.rev, MaxObjects).ids) >= 3
    /\ Len(stdout) = 3

\* Every order of the directory resolves rev to a blob or a tree.
ResolvesToNonCommit(objs, rev) ==
    \A listing \in Listings(objs, rev) :
        /\ from_rev(objs, rev, listing).kind = "ok"
        /\ from_rev(objs, rev, listing).val.type \in {"blob", "tree"}

\* C5: log started at a blob or a tree returns success with nothing written;
\* the iteration that resolves a parent to a blob or a tree ends the walk
\* with success and writes nothing more.
C5_NonCommitEndsWalk ==
    /\ []((call.op = "log" /\ logPc = "done" /\ ResolvesToNonCommit(objects, call.rev))
            => (ret = Ok(<<>>) /\ stdout = <<>>))
    /\ [][(logPc = "loop" /\ ResolvesToNonCommit(objects, next_object_rev.val))
            => (logPc' = "done" /\ ret' = Ok(<<>>) /\ stdout' = stdout)]_vars

C5_Witness ==
    /\ call.op = "log" /\ logPc = "done" /\ ret = Ok(<<>>)
    /\ Len(stdout) >= 1
    /\ ResolvesToNonCommit(objects, next_object_rev.val)

\* C6: log ends on every store.  The store does not change while log runs and
\* an iteration depends on nothing but the store and the revision it is on, so
\* a log that ends never starts an iteration on a revision that an earlier
\* iteration of the same call was on.
C6_LogTerminates == (logPc = "loop") => (next_object_rev.val \notin visited)

\* C13: a command that returns an error has written nothing to its output; in
\* particular log, when the parent of a commit cannot be resolved.
C13_ErrorWritesNothing ==
    (call.op \in {"log", "cat_file", "show_ref"} /\ logPc # "loop" /\ ret.kind = "err") =>
        stdout = <<>>

\* C14: every line log writes begins with the first 6 hex digits of the full
\* identifier of the commit it describes, then " - ", the first line of the
\* commit's message, " - " and the committer in double quotes.
C14_LineShowsFullIdentifier ==
    [][(logPc = "loop" /\ Len(stdout') > Len(stdout)) =>
        \E h \in Matching(objects, next_object_rev.val) :
            LET commit == StoredObject(objects, h).val
            IN  stdout'[Len(stdout')] =
                    Take(h, LogRevWidth) \o B_sep \o first_line(commit.message)
                    \o B_sep \o <<"\"">> \o commit.committer \o <<"\"">>]_vars

---------------------------------------------------------------------------
(* refs.rs find_ref: reference resolution.                                 *)

\* Paths of reference files, relative to .git.  The last is a file whose name
\* starts with the characters of the marker.
P_HEAD == B_HEAD
P_m == B_refs_heads \o <<"m">>
P_f == B_refs_heads \o <<"f">>
P_w == B_ref \o <<"f">>
RefPaths == {P_HEAD, P_m, P_f, P_w}

\* The identifier the reference files of the model name.
RefId == Pad(<<"a", "a", "b">>)

\* Contents of reference files: a literal identifier, with or without a line
\* feed after it, or the marker and the path of a reference.
RefContents ==
    {RefId, RefId \o <<LF>>, B_ref \o P_f}
    \cup {B_ref \o p \o <<LF>> : p \in RefPaths}

\* The stack holds more frames of find_ref than there are reference files: a
\* chain that ends never overflows it.
MaxDepth == MaxRefs + 2

\* fs::write of a reference file: init_repo writes HEAD, the tests' create_ref
\* the files under refs/heads.
WriteRefFile ==
    /\ Fixture
    /\ \E p \in RefPaths, content \in RefContents :
        /\ Cardinality(DOMAIN refs \cup {p}) <= MaxRefs
        /\ refs' = [q \in DOMAIN refs \cup {p} |-> IF q = p THEN content ELSE refs[q]]
    /\ UNCHANGED <<objects, ret, call, stdout, next_object_rev, logPc,
                   reference, depth, refPc, visited, prevCall, threads>>

\* The body of one call of find_ref(reference, repo), refs.rs:16-25: what it
\* returns, or the argument of the call it makes.
find_ref_body(files, ref) ==
    IF ref \notin DOMAIN files
    THEN [kind |-> "return", ret |-> [kind |-> "err", msg |-> "Reference not found", reference |-> ref]]
    ELSE LET content == files[ref]
         IN  IF starts_with(content, B_ref)
             THEN [kind |-> "call", target |-> trim_end(trim_start_matches(content, B_ref))]
             ELSE [kind |-> "return", ret |-> Ok(trim_end(content))]

\* find_ref(reference, repo) is called.
FindRefStart ==
    /\ Fixture
    /\ \E r \in RefPaths :
        /\ call' = [op |-> "find_ref", reference |-> r]
        /\ reference' = r
    /\ refPc' = "run"
    /\ depth' = 1
    /\ visited' = {}
    /\ UNCHANGED <<objects, refs, ret, stdout, next_object_rev, logPc, prevCall, threads>>

\* The innermost call of find_ref runs: it returns, and with it every call
\* below it (refs.rs:22 returns what the inner call returns), or it calls
\* find_ref again, which needs one more stack frame.
FindRefStep ==
    /\ refPc = "run"
    /\ LET body == find_ref_body(refs, reference)
       IN  IF body.kind = "return"
           THEN /\ ret' = body.ret
                /\ refPc' = "done"
                /\ UNCHANGED <<reference, depth, visited>>
           ELSE IF depth < MaxDepth
           THEN /\ reference' = body.target
                /\ depth' = depth + 1
                /\ visited' = visited \cup {reference}
                /\ UNCHANGED <<ret, refPc>>
           ELSE /\ refPc' = "overflow"
                /\ ret' = Panic("stack overflow")
                /\ visited' = visited \cup {reference}
                /\ UNCHANGED <<reference, depth>>
    /\ UNCHANGED <<objects, refs, call, stdout, next_object_rev, logPc, prevCall, threads>>

NextRef == WriteRefFile \/ FindRefStart \/ FindRefStep

SpecRef == Init /\ [][NextRef]_vars

\* A literal identifier, optionally followed by white space.
IsLiteral(content) ==
    /\ Len(trim_end(content)) = HashLen
    /\ \A i \in 1..HashLen : \E k \in 1..16 : HexDigits[k] = trim_end(content)[i]

\* The path a symbolic reference names: what follows the marker, without the
\* white space at the end.
SymbolicTarget(content) == trim_end(Drop(content, Len(B_ref)))

\* The chain of references that starts at r: the identifier at its end, when
\* it ends at a literal identifier within n files.
RECURSIVE chain_end(_, _, _)
chain_end(files, r, n) ==
    IF n = 0 \/ r \notin DOMAIN files THEN None
    ELSE IF IsLiteral(files[r]) THEN Ok(trim_end(files[r]))
    ELSE IF starts_with(files[r], B_ref) THEN chain_end(files, SymbolicTarget(files[r]), n - 1)
    ELSE None

\* C7: find_ref on the first reference of a chain of symbolic references that
\* ends at a literal identifier returns that identifier without the white
\* space after it.
C7_ChainResolvesToIdentifier ==
    (call.op = "find_ref" /\ refPc \in {"done", "overflow"}
     /\ chain_end(refs, call.reference, MaxRefs).kind = "ok") =>
        ret = chain_end(refs, call.reference, MaxRefs)

\* C8: find_ref on a reference that leads back to itself returns an error.
C8_CycleRejected ==
    (call.op = "find_ref" /\ refPc \in {"done", "overflow"} /\ reference \in visited) =>
        (refPc = "done" /\ ret.kind = "err")

\* C18: when the content of a reference file starts with the marker, find_ref
\* goes on with the path that follows that one marker, white space trimmed.
C18_OneMarkerRemoved ==
    [][(refPc = "run" /\ refPc' = "run" /\ reference \in DOMAIN refs
        /\ starts_with(refs[reference], B_ref)) =>
            reference' = SymbolicTarget(refs[reference])]_vars

---------------------------------------------------------------------------
(* lib.rs hash_object.                                                     *)

\* What hash_object reads from its input.
HashContents == Contents \cup {<<>>}

\* hash_object that prints the identifier in Write mode without storing.
hash_object_unwritten(objs, mode, data) ==
    LET h == Blob_hash(data)
    IN  [objects |-> objs, stdout |-> writeln(<<>>, h), ret |-> Ok(<<>>)]

\* hash_object whose identifier also depends on what the store holds.
hash_object_salted(objs, mode, data) ==
    LET h == hash(blob_bytes(data) \o to_string(Cardinality(StoredIds(objs))))
        compressed == zlib_encode(B_blob \o <<SP>> \o to_string(Len(data)) \o <<NUL>> \o data)
    IN  [objects |-> IF mode = "Write"
                     THEN fs_write(objs, Take(h, ShardLen), Drop(h, ShardLen), compressed)
                     ELSE objs,
         stdout |-> writeln(<<>>, h),
         ret |-> Ok(<<>>)]

\* hash_object(mode, object, stdout) on an input that holds data and an empty
\* stdout: the store, stdout and the result after it.
hash_object(objs, mode, data) ==
    LET h == Blob_hash(data)
        compressed == zlib_encode(B_blob \o <<SP>> \o to_string(Len(data)) \o <<NUL>> \o data)
    IN  [objects |-> IF mode = "Write"
                     THEN fs_write(objs, Take(h, ShardLen), Drop(h, ShardLen), compressed)
                     ELSE objs,
         stdout |-> writeln(<<>>, h),
         ret |-> Ok(<<>>)]

\* The call that has just returned, with the store and stdout it left.
LastCall ==
    IF call = NoCall THEN None
    ELSE [kind |-> "ok", call |-> call, objects |-> objects, stdout |-> stdout, ret |-> ret]

HashObject ==
    /\ Idle
    /\ \E mode \in {"HashOnly", "Write"}, data \in HashContents :
        LET r == hash_object(objects, mode, data)
        IN  /\ call' = [op |-> "hash_object", mode |-> mode, data |-> data]
            /\ objects' = r.objects
            /\ stdout' = r.stdout
            /\ ret' = r.ret
    /\ prevCall' = LastCall
    /\ UNCHANGED <<refs, next_object_rev, logPc, reference, depth, refPc, visited, threads>>

\* Object::from_rev(repo, rev) on the identifier hash_object has just printed.
FromRevPrinted ==
    /\ Idle
    /\ call.op = "hash_object"
    /\ \E listing \in Listings(objects, stdout[1]) :
        /\ call' = [op |-> "from_rev", rev |-> stdout[1]]
        /\ ret' = from_rev(objects, stdout[1], listing)
    /\ prevCall' = LastCall
    /\ UNCHANGED <<objects, refs, stdout, next_object_rev, logPc,
                   reference, depth, refPc, visited, threads>>

NextHash == WriteCompressedObject \/ HashObject \/ FromRevPrinted

SpecHash == Init /\ [][NextHash]_vars

\* The call before the one that has just returned was hash_object(Write) on data.
WroteBefore(data) ==
    /\ prevCall.kind = "ok"
    /\ prevCall.call = [op |-> "hash_object", mode |-> "Write", data |-> data]

\* C9: after hash_object in Write mode on B has printed H, from_rev(H) returns
\* the blob whose content is B.
C9_WrittenBlobIsReadBack ==
    \A data \in HashContents :
        (call.op = "from_rev" /\ WroteBefore(data) /\ call.rev = prevCall.stdout[1]) =>
            ret = Ok(Blob(data))

C9_Witness ==
    /\ call.op = "from_rev"
    /\ WroteBefore(<<"a", SP, NUL>>)
    /\ prevCall.stdout = <<Blob_hash(<<"a", SP, NUL>>)>>
    /\ call.rev = Blob_hash(<<"a", SP, NUL>>)
    /\ ret = Ok(Blob(<<"a", SP, NUL>>))

\* C10: hash_object in Write mode on the content the call before it wrote
\* prints the same identifier and leaves the store as that call left it.
C10_SecondWriteChangesNothing ==
    (call.op = "hash_object" /\ call.mode = "Write" /\ WroteBefore(call.data)) =>
        /\ ret = prevCall.ret
        /\ stdout = prevCall.stdout
        /\ objects = prevCall.objects

C10_Witness ==
    /\ call = [op |-> "hash_object", mode |-> "Write", data |-> <<"a">>]
    /\ WroteBefore(<<"a">>)
    /\ Cardinality(StoredIds(objects)) > 1
    /\ stdout = <<Blob_hash(<<"a">>)>>
    /\ Blob_hash(<<"a">>) \in StoredIds(objects)

---------------------------------------------------------------------------
(* object.rs: Object::from_bytes as a function of its input.               *)

\* The 40 hex digits of a tree entry.
EntryHash == [i \in 1..(2 * RawHashLen) |-> IF i % 2 = 1 THEN "0" ELSE "1"]

\* Entries of recognised mode, with a name that is not empty and holds no NUL.
FilePool ==
    {File(mode, name, EntryHash) :
        mode \in DOMAIN ModeStrings, name \in {<<"a">>, <<"a", SP, "xC3", "xA9">>}}

\* Trees of at most two entries.
TreePool ==
    {Tree(<<>>)} \cup {Tree(<<f>>) : f \in FilePool}
    \cup {Tree(<<f, File("Tree", <<"d">>, EntryHash)>>) : f \in FilePool}

\* Commit messages: empty, one line, a line feed at the end, two lines, a
\* carriage return before the line feed and by itself, a blank first line.
MessagePool ==
    {<<>>, <<"m">>, <<"m", LF>>, <<"m", LF, "n">>, <<"m", CR, LF, "n">>,
     <<"m", CR, "n">>, <<LF, "m">>, <<"m", LF, LF>>}

CommitPool ==
    {[type |-> "commit", tree |-> tr, parent |-> pa, author |-> au,
      committer |-> <<"A">>, encoding |-> en, message |-> me] :
        tr \in {<<>>, Pad(<<"9", "9">>)}, pa \in {<<>>, Pad(<<"a", "a", "b">>)},
        au \in {<<"B">>, <<"B", SP, "b">>}, en \in {<<>>, <<"x">>},
        me \in MessagePool}

ObjectPool == {Blob(c) : c \in Contents \cup {<<>>}} \cup TreePool \cup CommitPool

\* The files of a tree as create_tree takes them: the mode as its string.
mode_strings(files) == [i \in 1..Len(files) |-> [files[i] EXCEPT !.mode = mode_str(files[i].mode)]]

\* The encoding of an object: what hash_object and the test helpers compress.
encode(o) ==
    IF o.type = "blob" THEN blob_bytes(o.content)
    ELSE IF o.type = "tree" THEN tree_bytes(mode_strings(o.files))
    ELSE commit_bytes(o)

\* Object::from_bytes(encode(o))
FromBytesEncoded ==
    /\ Fixture
    /\ \E o \in ObjectPool :
        /\ call' = [op |-> "from_bytes", s |-> encode(o), of |-> Ok(o)]
        /\ ret' = from_bytes(encode(o))
    /\ UNCHANGED <<objects, refs, stdout, next_object_rev, logPc,
                   reference, depth, refPc, visited, prevCall, threads>>

\* C11: from_bytes of the encoding of an object returns that object, for
\* blobs, trees and commits.
C11_RoundTrip ==
    (call.op = "from_bytes" /\ call.of.kind = "ok") => ret = call.of

\* The 20 raw bytes of a tree entry, and a well-formed entry.
RawHash == hex_decode(EntryHash)
B_100644 == ModeStrings.NormalFile
GoodEntry == B_100644 \o <<SP, "a", NUL>> \o RawHash

\* Tree contents: without a space; with a mode that is not recognised, empty
\* or not UTF-8; ending after the mode, inside the name, after the name and
\* inside the raw hash; the same after a well-formed entry; well-formed.
TreeContentPool ==
    {<<"a", "b", "c">>,
     B_100644 \o <<"0">>,
     <<"a", "b", "c", SP>>,
     <<SP, "a", NUL>> \o RawHash,
     <<"xFF", SP, "a", NUL>> \o RawHash,
     B_100644 \o <<SP>>,
     B_100644 \o <<SP, "a", "b">>,
     B_100644 \o <<SP, "a", NUL>>,
     B_100644 \o <<SP, "a", NUL, "0", "1">>,
     B_100644 \o <<SP, NUL>> \o RawHash,
     GoodEntry,
     GoodEntry \o <<"a", "b", "c">>,
     GoodEntry \o B_100644 \o <<SP>>,
     GoodEntry \o ModeStrings.Tree \o <<SP, "d">>,
     GoodEntry \o GoodEntry}

\* Inputs of from_bytes that no encoder produces: malformed headers, a NUL
\* before the first space, a size that does not match, an unknown type,
\* commit text that is not UTF-8 or has a line without a space, and trees.
BytePool ==
    {<<>>,
     B_blob,
     B_blob \o <<SP, "1">>,
     <<NUL, SP>>,
     <<"a", NUL, SP, "b">>,
     B_blob \o <<NUL, SP, "1">>,
     B_blob \o <<SP, NUL>>,
     B_blob \o <<SP, "x", NUL>>,
     B_blob \o <<SP, "+", "1", NUL, "a">>,
     B_blob \o <<SP, "1", NUL, "a", "b">>,
     <<"x", "y", "z", SP, "0", NUL>>,
     <<"xFF", SP, "0", NUL>>,
     B_commit \o <<SP, "0", NUL>>,
     B_commit \o <<SP, "1", NUL, "xFF">>,
     B_commit \o <<SP, "2", NUL, "a", "b">>}
    \cup {B_tree \o <<SP>> \o to_string(Len(c)) \o <<NUL>> \o c : c \in TreeContentPool}

\* Object::from_bytes(s)
FromBytes ==
    /\ Fixture
    /\ \E s \in BytePool :
        /\ call' = [op |-> "from_bytes", s |-> s, of |-> None]
        /\ ret' = from_bytes(s)
    /\ UNCHANGED <<objects, refs, stdout, next_object_rev, logPc,
                   reference, depth, refPc, visited, prevCall, threads>>

NextCodec == FromBytesEncoded \/ FromBytes

SpecCodec == Init /\ [][NextCodec]_vars

\* The input is a tree whose header is well formed and states the size of
\* the content.
IsTreeInput(s) ==
    /\ parse_header(s).kind = "ok"
    /\ parse_header(s).val[1] = B_tree
    /\ Len(s) - (parse_header(s).val[3] + 1) = parse_header(s).val[2]

\* What is left of the content of a tree after its leading well-formed entries.
RECURSIVE remaining(_)
remaining(c) ==
    LET sp == position(c, SP)
        rest == Drop(c, sp + 1)
        nul == position(rest, NUL)
    IN  IF sp # -1 /\ from_mode_str(Take(c, sp)).kind = "ok" /\ nul # -1
           /\ valid_utf8(Take(rest, nul)) /\ Len(rest) - (nul + 1) >= RawHashLen
        THEN remaining(Drop(rest, nul + 1 + RawHashLen))
        ELSE c

\* C17: from_bytes rejects the first malformed entry of a tree with the error
\* of its first malformed field: no space, 'Failed to read mode'; a mode that
\* is not recognised, 'Failed to parse mode'; no NUL after the name, 'Failed
\* to read file name'; fewer than 20 bytes after the NUL, 'Failed to read hash'.
C17_TreeEntryErrors ==
    (call.op = "from_bytes" /\ IsTreeInput(call.s)) =>
        LET c == remaining(Drop(call.s, parse_header(call.s).val[3] + 1))
            sp == position(c, SP)
            recognised == from_mode_str(Take(c, sp)).kind = "ok"
            rest == Drop(c, sp + 1)
            nul == position(rest, NUL)
        IN  /\ (c # <<>> /\ sp = -1) => ret = Err("Failed to read mode")
            /\ (sp # -1 /\ ~recognised) => ret = Err("Failed to parse mode")
            /\ (sp # -1 /\ recognised /\ nul = -1) => ret = Err("Failed to read file name")
            /\ (sp # -1 /\ recognised /\ nul # -1 /\ valid_utf8(Take(rest, nul))
                /\ Len(rest) - (nul + 1) < RawHashLen) => ret = Err("Failed to read hash")

\* C19: from_bytes returns an object or an error for every input.
C19_NeverAborts ==
    (call.op = "from_bytes") => ret.kind \in {"ok", "err"}

---------------------------------------------------------------------------
(* lib.rs hash_object in Write mode, called concurrently.                  *)

\* The file a write of content goes to, and the bytes written to it.
shard_of(content) == Take(Blob_hash(content), ShardLen)
file_of(content) == Drop(Blob_hash(content), ShardLen)
compressed_of(content) == zlib_encode(blob_bytes(content))

\* write(2) of chunk at offset pos of a file that holds old: the bytes between
\* the end of the file and pos read as zero.
pwrite(old, pos, chunk) ==
    [i \in 1..(IF Len(old) > pos + Len(chunk) THEN Len(old) ELSE pos + Len(chunk)) |->
        IF i > pos /\ i <= pos + Len(chunk) THEN chunk[i - pos]
        ELSE IF i <= Len(old) THEN old[i]
        ELSE NUL]

\* The number of bytes one call of write(2) accepts of n: all of them, or half.
WriteSizes(n) == {n} \cup {k \in {n \div 2} : k > 0}

\* hash_object in Write mode has stored content and returned; now MaxWriters
\* more calls on the same content start, each about to run fs::write.
StartWriters ==
    /\ Idle
    /\ call.op = "hash_object" /\ call.mode = "Write"
    /\ prevCall = None
    /\ threads' = [w \in Writers |-> [pc |-> "create", content |-> call.data, pos |-> 0]]
    /\ UNCHANGED <<objects, refs, ret, call, stdout, next_object_rev, logPc,
                   reference, depth, refPc, visited, prevCall>>

\* fs::write, first step: File::create opens the file and truncates it.
WriterCreate ==
    \E w \in Writers :
        /\ threads[w].pc = "create"
        /\ objects' = fs_write(objects, shard_of(threads[w].content),
                               file_of(threads[w].content), <<>>)
        /\ threads' = [threads EXCEPT ![w].pc = "write"]
        /\ UNCHANGED <<refs, ret, call, stdout, next_object_rev, logPc,
                       reference, depth, refPc, visited, prevCall>>

\* fs::write, then: write_all calls write(2) until all bytes are written.
WriterWrite ==
    \E w \in Writers :
        /\ threads[w].pc = "write"
        /\ LET data == compressed_of(threads[w].content)
               pos == threads[w].pos
               dir == shard_of(threads[w].content)
               file == file_of(threads[w].content)
           IN  \E n \in (IF pos = 0 THEN WriteSizes(Len(data)) ELSE {Len(data) - pos}) :
                   /\ objects' = fs_write(objects, dir, file,
                                          pwrite(objects[dir][file], pos, SubSeq(data, pos + 1, pos + n)))
                   /\ threads' = [threads EXCEPT ![w].pos = pos + n,
                                                 ![w].pc = IF pos + n = Len(data) THEN "done" ELSE "write"]
        /\ UNCHANGED <<refs, ret, call, stdout, next_object_rev, logPc,
                       reference, depth, refPc, visited, prevCall>>

\* Object::from_rev on the identifier of the content, while the writers run
\* or after them.
ReadWritten ==
    /\ threads[1].pc # "idle"
    /\ LET rev == Blob_hash(threads[1].content)
       IN  \E listing \in Listings(objects, rev) :
               /\ call' = [op |-> "from_rev", rev |-> rev]
               /\ ret' = from_rev(objects, rev, listing)
    /\ UNCHANGED <<objects, refs, stdout, next_object_rev, logPc,
                   reference, depth, refPc, visited, prevCall, threads>>

NextConc == HashObject \/ StartWriters \/ WriterCreate \/ WriterWrite \/ ReadWritten

SpecConc == Init /\ [][NextConc]_vars

\* C12: with concurrent writes of a content that was stored before they
\* started, every read of its identifier returns the blob, and when all
\* writers have finished the file holds the bytes of a single write.
C12_ConcurrentWritesAreSafe ==
    /\ (threads[1].pc # "idle" /\ call.op = "from_rev") =>
            ret = Ok(Blob(threads[1].content))
    /\ (\A w \in Writers : threads[w].pc = "done") =>
            objects[shard_of(threads[1].content)][file_of(threads[1].content)]
                = compressed_of(threads[1].content)

---------------------------------------------------------------------------
(* lib.rs show_ref and iter_subdirs.                                       *)

B_refs == <<"r", "e", "f", "s">>
B_heads == <<"h", "e", "a", "d", "s">>
B_remotes == <<"r", "e", "m", "o", "t", "e", "s">>
B_tags == <<"t", "a", "g", "s">>
SEP == "/"

\* Path::join
path_join(a, b) == a \o <<SEP>> \o b

\* Reference files of the fixture: a branch, a branch in a subdirectory, a
\* branch whose file name holds a backslash, and a tag.
ShowPaths ==
    {path_join(path_join(B_refs, B_heads), <<"m">>),
     path_join(path_join(B_refs, B_heads), <<"d", SEP, "n">>),
     path_join(path_join(B_refs, B_heads), <<"d", "\\", "n">>),
     path_join(path_join(B_refs, B_tags), <<"t">>)}

\* Their contents: two identifiers, a reference to the branch m, and a
\* reference to a branch that does not exist.
ShowContents ==
    {RefId, Pad(<<"b", "c">>) \o <<LF>>,
     B_ref \o P_m \o <<LF>>,
     B_ref \o B_refs_heads \o <<"x">> \o <<LF>>}

\* The files under .git/<dir>.
files_under(files, dir) == {p \in DOMAIN files : starts_with(p, dir \o <<SEP>>)}

\* refs.rs create_ref, and the same for a tag: fs::write of a file under refs.
CreateRef ==
    /\ Fixture
    /\ \E p \in ShowPaths, content \in ShowContents :
        /\ Cardinality(files_under(refs, B_refs) \cup {p}) <= MaxRefs
        /\ refs' = [q \in DOMAIN refs \cup {p} |-> IF q = p THEN content ELSE refs[q]]
    /\ UNCHANGED <<objects, ret, call, stdout, next_object_rev, logPc,
                   reference, depth, refPc, visited, prevCall, threads>>

\* Path::is_dir of .git/<dir>: init_repo creates refs/heads, every other
\* directory exists when a file is under it.
is_dir(files, dir) == dir = path_join(B_refs, B_heads) \/ files_under(files, dir) # {}

\* The entry of dir that the path p, a file under dir, is or is under.
entry_of(dir, p) ==
    LET rest == Drop(p, Len(dir) + 1)
        s == position(rest, SEP)
    IN  IF s = -1 THEN rest ELSE Take(rest, s)

\* The place of p in the sequence order.
rank(order, p) == CHOOSE i \in 1..Len(order) : order[i] = p

\* iter_subdirs(dir, callback): the files callback is called on, in order.
\* fs::read_dir lists the entries of each directory in an order of its own:
\* here the entries of a directory come by the earliest place in order of a
\* file they are or hold.  S is the files under dir not yet listed.
RECURSIVE iter_subdirs(_, _, _)
iter_subdirs(dir, S, order) ==
    IF S = {} THEN <<>>
    ELSE LET p == CHOOSE q \in S : \A r \in S : rank(order, q) <= rank(order, r)
             entry == path_join(dir, entry_of(dir, p))
             within == {q \in S : entry_of(dir, q) = entry_of(dir, p)}
         IN  (IF entry = p THEN <<p>> ELSE iter_subdirs(entry, within, order))
             \o iter_subdirs(dir, S \ within, order)

\* str::replace of one byte by another.
replace(s, from, to) == [i \in 1..Len(s) |-> IF s[i] = from THEN to ELSE s[i]]

\* find_ref(reference, repo) with depth frames of it on the stack already.
RECURSIVE find_ref(_, _, _)
find_ref(files, ref, frames) ==
    LET body == find_ref_body(files, ref)
    IN  IF body.kind = "return" THEN body.ret
        ELSE IF frames + 1 < MaxDepth THEN find_ref(files, body.target, frames + 1)
        ELSE Panic("stack overflow")

\* The closure add_ref_to_found of lib.rs:142-152 on each path in turn: the
\* pairs found, or the first result that is not Ok.
RECURSIVE add_refs(_, _, _)
add_refs(files, paths, found_refs) ==
    IF paths = <<>> THEN Ok(found_refs)
    ELSE LET ref_name == replace(paths[1], "\\", SEP)
             h == find_ref(files, ref_name, 0)
         IN  IF h.kind # "ok" THEN h
             ELSE add_refs(files, Tail(paths), Append(found_refs, <<ref_name, h.val>>))

\* str::cmp: the order of the bytes.
RECURSIVE str_le(_, _)
str_le(a, b) ==
    IF a = <<>> THEN TRUE
    ELSE IF b = <<>> THEN FALSE
    ELSE IF a[1] = b[1] THEN str_le(Tail(a), Tail(b))
    ELSE ByteValue(a[1]) < ByteValue(b[1])

\* slice::sort_by(|a, b| a.0.cmp(&b.0)): a stable sort by the name.
RECURSIVE sort_by_name(_)
sort_by_name(pairs) ==
    IF pairs = <<>> THEN <<>>
    ELSE LET sorted == sort_by_name(SubSeq(pairs, 1, Len(pairs) - 1))
             last == pairs[Len(pairs)]
             k == Cardinality({i \in 1..Len(sorted) : str_le(sorted[i][1], last[1])})
         IN  SubSeq(sorted, 1, k) \o <<last>> \o SubSeq(sorted, k + 1, Len(sorted))

RECURSIVE write_refs(_, _)
write_refs(pairs, out) ==
    IF pairs = <<>> THEN out
    ELSE write_refs(Tail(pairs), writeln(out, pairs[1][2] \o <<SP>> \o pairs[1][1]))

\* show_ref(repo, stdout) when read_dir lists by order: the result and stdout.
show_ref(files, order) ==
    LET walk(folder) ==
            LET path == path_join(B_refs, folder)
            IN  IF is_dir(files, path) THEN iter_subdirs(path, files_under(files, path), order)
                ELSE <<>>
        found == add_refs(files, walk(B_heads) \o walk(B_remotes) \o walk(B_tags), <<>>)
    IN  IF found.kind # "ok" THEN [ret |-> found, stdout |-> <<>>]
        ELSE [ret |-> Ok(<<>>), stdout |-> write_refs(sort_by_name(found.val), <<>>)]

\* The orders of the files under refs.
Orders(files) ==
    LET S == files_under(files, B_refs)
        n == Cardinality(S)
    IN  {f \in [1..n -> S] : \A i, j \in 1..n : f[i] = f[j] => i = j}

ShowRef ==
    /\ Fixture
    /\ \E order \in Orders(refs) :
        /\ ret' = show_ref(refs, order).ret
        /\ stdout' = show_ref(refs, order).stdout
    /\ call' = [op |-> "show_ref"]
    /\ UNCHANGED <<objects, refs, next_object_rev, logPc,
                   reference, depth, refPc, visited, prevCall, threads>>

NextShow == CreateRef \/ ShowRef

SpecShow == Init /\ [][NextShow]_vars

\* The leaf files under the three namespaces.
LeafFiles(files) ==
    files_under(files, path_join(B_refs, B_heads))
    \cup files_under(files, path_join(B_refs, B_remotes))
    \cup files_under(files, path_join(B_refs, B_tags))

\* The leaf files in ascending order of name.
Ascending(S) ==
    CHOOSE f \in [1..Cardinality(S) -> S] :
        \A i, j \in 1..Cardinality(S) : i < j => (f[i] # f[j] /\ str_le(f[i], f[j]))

\* C16: when every reference file resolves, show_ref succeeds and writes one
\* line "<identifier> <name>" for each leaf file under refs/heads,
\* refs/remotes and refs/tags, in ascending order of name, whatever the order
\* in which the directories are listed.
C16_ShowRefListsEveryReference ==
    (call.op = "show_ref"
     /\ \A p \in LeafFiles(refs) : find_ref(refs, p, 0).kind = "ok") =>
        /\ ret = Ok(<<>>)
        /\ stdout = [i \in 1..Cardinality(LeafFiles(refs)) |->
                        find_ref(refs, Ascending(LeafFiles(refs))[i], 0).val
                        \o <<SP>> \o Ascending(LeafFiles(refs))[i]]

---------------------------------------------------------------------------
(* object.rs Object::from_rev on the name of a branch or a tag.            *)

\* Names of branches and tags of the fixture.
NamePool == {<<"m">>, <<"d", SEP, "n">>, <<"t">>}

\* Object::from_rev(repo, rev) with the name of a branch or a tag as rev.
FromRevName ==
    /\ Fixture
    /\ \E rev \in NamePool : \E listing \in Listings(objects, rev) :
        /\ call' = [op |-> "from_rev", rev |-> rev]
        /\ ret' = from_rev(objects, rev, listing)
    /\ UNCHANGED <<objects, refs, stdout, next_object_rev, logPc,
                   reference, depth, refPc, visited, prevCall, threads>>

NextName == CreateTree \/ CreateRef \/ FromRevName

SpecName == Init /\ [][NextName]_vars

\* The reference files a branch or a tag of this name is stored in.
NamedRefs(files, name) ==
    {p \in {path_join(path_join(B_refs, B_heads), name),
            path_join(path_join(B_refs, B_tags), name)} : p \in DOMAIN files}

\* C15: from_rev on the name of a branch or a tag whose reference resolves to
\* the identifier of a stored object returns that object.
C15_BranchOrTagResolves ==
    (call.op = "from_rev") =>
        \A p \in NamedRefs(refs, call.rev) :
            (find_ref(refs, p, 0).kind = "ok"
             /\ find_ref(refs, p, 0).val \in StoredIds(objects)) =>
                ret = StoredObject(objects, find_ref(refs, p, 0).val)

===========================================================================
